---- MODULE Spec2Model ----
(***************************************************************************)
(* Model of the named publish/subscribe registry                           *)
(*   services/named_pub_sub_manager/named_pub_sub_manager.py               *)
(*   services/named_pub_sub_manager/pub_sub.py                             *)
(* and of the Queue Manager                                                *)
(*   services/queue_manager/queue_manager.py                               *)
(* whose container classes (module queues) are described by their          *)
(* specified behaviour.                                                    *)
(* A fixed set of callers (threads) issue registry calls; every call is     *)
(* split at the points where another caller can observe or change the      *)
(* shared dict / set objects.  Set objects live in a small heap so that     *)
(* two PubSub objects can share one `subscribers` set, exactly as          *)
(* `self.subscribers = subscribers or set()` allows.                        *)
(***************************************************************************)
EXTENDS Integers, Sequences, FiniteSets, TLC

\* ---------------------------------------------------------------- bounds
\* number of Subscriber instances
NumSubs == 2
\* longest specific_process_strategies list passed
MaxSelected == 2
\* longest process_strategies list of a Subscriber
MaxStrategies == 2
\* number of Event instances the callers of the Queue Manager create
MaxEvents == 3

\* ------------------------------------------------------------ universes
Callers == {"c1", "c2"}
Names == {"default", "a", "b"}
Subs == 1..NumSubs
NoSub == 0
None == "None"

\* set objects: the shared default argument of add_named_pub_sub, one set
\* owned by the caller, and the sets allocated by PubSub.__init__
DefaultArg == "dflt"
CallerSet == "ext"
Allocated == {"o1", "o2", "o3", "o4", "o5"}
SetObjs == {DefaultArg, CallerSet} \cup Allocated

\* the strategy classes of ProcessMessageStrategies used here, and the
\* classes a caller can name in specific_process_strategies
StrategyKinds == {"HTTP", "Email"}
Classes == StrategyKinds \cup {"ProcessStrategy"}

RECURSIVE SeqsUpTo(_, _)
SeqsUpTo(S, n) ==
  IF n = 0 THEN {<<>>}
  ELSE LET shorter == SeqsUpTo(S, n - 1)
       IN shorter \cup {Append(q, x) : q \in shorter, x \in S}

\* the optional second positional parameter of Subscriber.process
NoArgs == [given |-> FALSE, kinds |-> <<>>]
ArgValues == {NoArgs} \cup {[given |-> TRUE, kinds |-> q] : q \in SeqsUpTo(Classes, MaxSelected)}

\* the topic names the concurrent callers use
ConcurrentNames == {"a"}

\* the first positional context argument the registry callers pass to publish
PublishArgs == {NoArgs, [given |-> TRUE, kinds |-> <<"Email">>]}

\* the process_strategies list of the Subscriber instances the registry
\* callers use (equal lists: instances differ by identity only); a strategy
\* instance is identified by its position in that list
RegistryStrategies == <<"HTTP", "Email">>

\* the keys of QueueManager.queues and of queue_lookup (the values of
\* QueueType), and a queue_type argument that is none of them
QueueKinds == {"queue", "stack", "priority_queue"}
UnknownKind == "unknown"
QueueNames == {"default", "jobs"}

\* an Event instance: the order of creation identifies it, its priority is
\* what PriorityQueue orders by
Priorities == {1, 2, 3}
Stamps == 1..MaxEvents
NoEvent == [stamp |-> 0, priority |-> 0]

\* a container, and the value that stands for a name that is no key
Absent == [cls |-> "None", items |-> <<>>]

\* the value of `before` for a caller that is in no Queue Manager call
NoQueues == <<>>

VARIABLES
  named_pub_sub,           \* NamedPubSubManager.named_pub_sub : name -> set object of its PubSub
  subscribers,             \* heap: set object -> the Subscriber instances in it
  process_strategies,      \* Subscriber.process_strategies of every instance
  pc,                      \* per caller: position inside its current call
  op,                      \* per caller: the method called
  pub_sub_name,            \* per caller: argument pub_sub_name
  subscriber,              \* per caller: argument subscriber / fan-out loop variable
  args,                    \* per caller: first positional context argument of publish
  subs_arg,                \* per caller: the subscribers argument of add_named_pub_sub
  pub_sub,                 \* per caller: the set object of self.named_pub_sub[name]
  it,                      \* per caller: the set iterator of PubSub.publish
  intersection_strategies, \* per caller: local of Subscriber.process
  idx,                     \* per caller: position in intersection_strategies
  result,                  \* per caller: how the call ended
  hist,                    \* per caller: record of what the current call did
  unsubscribed,            \* <<name, s>>: unsubscribe(name, s) returned, no subscribe(name, s) since
  queues,                  \* QueueManager.queues : kind -> name -> container
  min_first,               \* the order PriorityQueue is configured with
  queue_type,              \* per caller: argument queue_type
  queue_name,              \* per caller: argument queue_name
  elements,                \* per caller: argument *elements
  dequeued,                \* per caller: the event dequeue returned
  before,                  \* per caller: queues when the current call began
  stamp,                   \* number of Event instances created so far
  config,                  \* per strategy instance: its email_protocol and its settings
  first_publish            \* what the first publish that returned did

\* the state of the Queue Manager and of the calls made to it
queue_vars == <<queues, min_first, queue_type, queue_name, elements, dequeued, before, stamp>>

\* the state of the registry and of the calls made to it, but for the
\* position, method and outcome of a caller's current call
registry_vars == <<named_pub_sub, subscribers, process_strategies, pub_sub_name, subscriber,
                   args, subs_arg, pub_sub, it, intersection_strategies, idx, hist,
                   unsubscribed, config, first_publish>>

vars == <<named_pub_sub, subscribers, process_strategies, pc, op, pub_sub_name, subscriber, args,
          subs_arg, pub_sub, it, intersection_strategies, idx, result, hist, unsubscribed,
          queues, min_first, queue_type, queue_name, elements, dequeued, before, stamp,
          config, first_publish>>

NoIter == [used |-> 0, todo |-> {}, started |-> FALSE]

\* hist[t]: absent     - create_pub_sub_name_if_not_exists found no topic
\*          snapshot   - the subscriber set when the fan-out began, or
\*                       before subscribe / unsubscribe changed it
\*          dispatched - subscribers whose process was called, in order
\*          invoked    - <<subscriber, strategy position>> invoked, in order
\*          failed     - the invocations that raised
\*          banned     - subscribers unsubscribed from the topic before this
\*                       publish began and not subscribed to it since
NoHist == [absent |-> FALSE, snapshot |-> {}, dispatched |-> <<>>,
           invoked |-> <<>>, failed |-> <<>>, banned |-> {}]

\* the pairs whose unsubscription is followed; the two non-default names
\* and the subscriber instances are interchangeable
Watched == {<<"a", 1>>}

Keys == {n \in Names : named_pub_sub[n] # None}
Range(f) == {f[x] : x \in DOMAIN f}

\* ------------------------------------------------------- set operations
\* a subscribe that replaces the set instead of adding to it
set_add_replacing(S, s) == {s}

\* a set that takes its elements by the dataclass __eq__ (equal fields)
set_add_by_equality(S, s) ==
  IF \E x \in S : process_strategies[x] = process_strategies[s] THEN S ELSE S \cup {s}

\* set.add: Subscriber.__hash__ returns id(self) (lines 228-229), and a
\* set compares hashes before __eq__, so membership is by instance
set_add(S, s) == S \cup {s}

\* set.remove in place of set.discard: raises when the element is absent
set_remove(S, s) == [set |-> S \ {s}, raised |-> IF s \in S THEN "ok" ELSE "KeyError"]

\* set.discard: removes if present, never raises
set_discard(S, s) == [set |-> S \ {s}, raised |-> "ok"]

\* objects no dict entry and no caller refers to are reclaimed
Collect(h, nps, refs) ==
  LET live == {DefaultArg, CallerSet} \cup Range(nps) \cup Range(refs)
  IN [o \in SetObjs |-> IF o \in live THEN h[o] ELSE {}]

\* `subscribers if subscribers is not None else set()`: the empty default
\* argument object itself becomes the topic's set
PubSubInitKeepingEmpty(arg, h, nps, refs) ==
  IF arg # None
  THEN arg
  ELSE CHOOSE o \in Allocated : o \notin Range(nps) \cup Range(refs)

\* PubSub.__init__: `subscribers or set()` keeps the argument object only
\* when it is non-empty, otherwise allocates a new empty set
PubSubInit(arg, h, nps, refs) ==
  IF arg # None /\ h[arg] # {}
  THEN arg
  ELSE CHOOSE o \in Allocated : o \notin Range(nps) \cup Range(refs)

\* ------------------------------------------------- strategy configuration
\* The fields of a strategy instance that its process reads and writes: the
\* settings (whether the dict has been wrapped in a list, and which of the
\* keys process touches are present) and, for Email, the email_protocol.
SettingKeys == {"receiver_email", "subject", "message_format", "data"}

\* HTTP(settings={"url": ..., "method": ...}) and
\* Email(settings={"host": ..., "user": ..., "password": ...,
\*                 "receiver_email": ..., "subject": ...},
\*       email_protocol=EmailProtocols.SMTP), as a caller constructs them
FreshConfig(k) ==
  IF k = "HTTP"
  THEN [email_protocol |-> None, wrapped |-> FALSE, keys |-> {}]
  ELSE [email_protocol |-> "SMTP", wrapped |-> FALSE,
        keys |-> {"receiver_email", "subject"}]

\* HTTP(settings=[{"url": ..., "data": ...}]) and
\* Email(settings={"host": ..., "message_format": None},
\*       email_protocol=EmailProtocols.IMAP): settings process does not change
SettledConfig(k) ==
  IF k = "HTTP"
  THEN [email_protocol |-> None, wrapped |-> TRUE, keys |-> {"data"}]
  ELSE [email_protocol |-> "IMAP", wrapped |-> FALSE, keys |-> {"message_format"}]

\* the configuration of every strategy of every Subscriber instance
ConfigOf(lists, fresh) ==
  [s \in Subs |-> [i \in 1..Len(lists[s]) |->
     IF fresh THEN FreshConfig(lists[s][i]) ELSE SettledConfig(lists[s][i])]]

\* HTTP.process: the settings dict is wrapped in a list (lines 44-45), every
\* item gets the key "data" (lines 47-48), then the requests are made
\* (line 59), which returns or raises
HTTPProcess(c) ==
  LET c1 == [c EXCEPT !.wrapped = TRUE, !.keys = @ \cup {"data"}]
  IN {[config |-> c1, raised |-> r] : r \in {"ok", "DeliveryError"}}

\* Email.process: the key "message_format" is stored (line 80), the
\* protocol object is built, which connects and logs in (line 91); for SMTP
\* "receiver_email" and "subject" are popped (lines 95-96), a KeyError when
\* the key is not there, and the mail is sent (line 98); for POP3 and IMAP
\* the mail is fetched (line 109)
EmailProcess(c) ==
  LET c1 == [c EXCEPT !.keys = @ \cup {"message_format"}]
      c2 == [c1 EXCEPT !.keys = @ \ {"receiver_email"}]
      c3 == [c2 EXCEPT !.keys = @ \ {"subject"}]
  IN {[config |-> c1, raised |-> "DeliveryError"]} \cup
     (IF c.email_protocol # "SMTP"
      THEN {[config |-> c1, raised |-> "ok"]}
      ELSE IF "receiver_email" \notin c1.keys
      THEN {[config |-> c1, raised |-> "KeyError"]}
      ELSE IF "subject" \notin c2.keys
      THEN {[config |-> c2, raised |-> "KeyError"]}
      ELSE {[config |-> c3, raised |-> r] : r \in {"ok", "DeliveryError"}})

\* strategy.process for a strategy of class k: the ways it can end
Process(k, c) == IF k = "HTTP" THEN HTTPProcess(c) ELSE EmailProcess(c)

\* no publish has returned yet
NoPublish == [made |-> FALSE, result |-> None, snapshot |-> {}, invoked |-> <<>>,
              config |-> <<>>]

\* ------------------------------------------------------------------ Init
\* QueueManager.__post_init__ : one empty container "default" of each kind
PostInitQueues ==
  [k \in QueueKinds |->
     [n \in QueueNames |->
        IF n = "default"
        THEN [cls |-> (CASE k = "queue" -> "Queue"
                         [] k = "stack" -> "Stack"
                         [] k = "priority_queue" -> "PriorityQueue"),
              items |-> <<>>]
        ELSE Absent]]

QueueManagerInit(order) ==
  /\ queues = PostInitQueues
  /\ min_first = order
  /\ queue_type = [t \in Callers |-> None]
  /\ queue_name = [t \in Callers |-> None]
  /\ elements = [t \in Callers |-> <<>>]
  /\ dequeued = [t \in Callers |-> NoEvent]
  /\ before = [t \in Callers |-> NoQueues]
  /\ stamp = 0

\* NamedPubSubManager.__post_init__ : one topic "default"; the Subscriber
\* instances a caller holds have strategies configured by cfg
NamedPubSubManagerWith(lists, ext, cfg) ==
  /\ named_pub_sub = [n \in Names |-> IF n = "default" THEN "o1" ELSE None]
  /\ subscribers = [o \in SetObjs |-> IF o = CallerSet THEN ext ELSE {}]
  /\ process_strategies = lists
  /\ pc = [t \in Callers |-> "idle"]
  /\ op = [t \in Callers |-> None]
  /\ pub_sub_name = [t \in Callers |-> None]
  /\ subscriber = [t \in Callers |-> NoSub]
  /\ args = [t \in Callers |-> NoArgs]
  /\ subs_arg = [t \in Callers |-> None]
  /\ pub_sub = [t \in Callers |-> None]
  /\ it = [t \in Callers |-> NoIter]
  /\ intersection_strategies = [t \in Callers |-> <<>>]
  /\ idx = [t \in Callers |-> 0]
  /\ result = [t \in Callers |-> None]
  /\ hist = [t \in Callers |-> NoHist]
  /\ unsubscribed = {}
  /\ config = cfg
  /\ first_publish = NoPublish

\* the strategies are configured so that processing keeps their settings
NamedPubSubManagerInit(lists, ext) ==
  NamedPubSubManagerWith(lists, ext, ConfigOf(lists, FALSE))

\* both managers constructed; PriorityQueue with its smallest priority first
InitWith(lists, ext) ==
  /\ NamedPubSubManagerInit(lists, ext)
  /\ QueueManagerInit(TRUE)

\* --------------------------------------------------------- call entries
Enter(t, o, n, s, a, sa, start) ==
  /\ pc[t] = "idle"
  /\ pc' = [pc EXCEPT ![t] = start]
  /\ op' = [op EXCEPT ![t] = o]
  /\ pub_sub_name' = [pub_sub_name EXCEPT ![t] = n]
  /\ subscriber' = [subscriber EXCEPT ![t] = s]
  /\ args' = [args EXCEPT ![t] = a]
  /\ subs_arg' = [subs_arg EXCEPT ![t] = sa]
  /\ result' = [result EXCEPT ![t] = None]
  /\ hist' = [hist EXCEPT ![t] = [NoHist EXCEPT !.banned =
                 IF o = "publish" THEN {x \in Subs : <<n, x>> \in unsubscribed} ELSE {}]]
  /\ UNCHANGED <<named_pub_sub, subscribers, process_strategies, config, first_publish,
                 queue_vars, pub_sub, it,
                 intersection_strategies, idx, unsubscribed>>

CallSubscribe(t, names) ==
  \E n \in names, s \in Subs : Enter(t, "subscribe", n, s, NoArgs, None, "create")

\* an unsubscribe that does not call create_pub_sub_name_if_not_exists
CallUnsubscribeNoCreate(t, names) ==
  \E n \in names, s \in Subs : Enter(t, "unsubscribe", n, s, NoArgs, None, "lookup")

CallUnsubscribe(t, names) ==
  \E n \in names, s \in Subs : Enter(t, "unsubscribe", n, s, NoArgs, None, "create")

CallPublish(t, names, argvals) ==
  \E n \in names, a \in argvals : Enter(t, "publish", n, NoSub, a, None, "create")

CallAddNamedPubSub(t, names, setargs) ==
  \E n \in names, sa \in setargs :
    Enter(t, "add_named_pub_sub", n, NoSub, NoArgs, sa, "add")

\* a call returns or raises: its locals die, the caller holds the outcome
Return(t, res, h) ==
  /\ pc' = [pc EXCEPT ![t] = "done"]
  /\ result' = [result EXCEPT ![t] = res]
  /\ pub_sub' = [pub_sub EXCEPT ![t] = None]
  /\ subscribers' = Collect(h, named_pub_sub, pub_sub')
  /\ intersection_strategies' = [intersection_strategies EXCEPT ![t] = <<>>]
  /\ idx' = [idx EXCEPT ![t] = 0]

\* the caller has taken the outcome and is free to make its next call
Finish(t) ==
  /\ pc[t] = "done"
  /\ pc' = [pc EXCEPT ![t] = "idle"]
  /\ op' = [op EXCEPT ![t] = None]
  /\ pub_sub_name' = [pub_sub_name EXCEPT ![t] = None]
  /\ subscriber' = [subscriber EXCEPT ![t] = NoSub]
  /\ args' = [args EXCEPT ![t] = NoArgs]
  /\ subs_arg' = [subs_arg EXCEPT ![t] = None]
  /\ result' = [result EXCEPT ![t] = None]
  /\ hist' = [hist EXCEPT ![t] = NoHist]
  /\ UNCHANGED <<named_pub_sub, subscribers, process_strategies, config, first_publish,
                 queue_vars, pub_sub, it,
                 intersection_strategies, idx, unsubscribed>>

\* the caller has taken the outcome; what its first publish did is kept
RepeatFinish(t) ==
  /\ pc[t] = "done"
  /\ pc' = [pc EXCEPT ![t] = "idle"]
  /\ op' = [op EXCEPT ![t] = None]
  /\ pub_sub_name' = [pub_sub_name EXCEPT ![t] = None]
  /\ subscriber' = [subscriber EXCEPT ![t] = NoSub]
  /\ args' = [args EXCEPT ![t] = NoArgs]
  /\ subs_arg' = [subs_arg EXCEPT ![t] = None]
  /\ result' = [result EXCEPT ![t] = None]
  /\ hist' = [hist EXCEPT ![t] = NoHist]
  /\ first_publish' =
       IF op[t] = "publish" /\ ~first_publish.made
       THEN [made |-> TRUE, result |-> result[t], snapshot |-> hist[t].snapshot,
             invoked |-> hist[t].invoked, config |-> config]
       ELSE first_publish
  /\ UNCHANGED <<named_pub_sub, subscribers, process_strategies, config,
                 queue_vars, pub_sub, it,
                 intersection_strategies, idx, unsubscribed>>

\* ------------------------------------ create_pub_sub_name_if_not_exists
CreateIfNotExists(t) ==
  /\ pc[t] = "create"
  /\ IF named_pub_sub[pub_sub_name[t]] = None
     THEN /\ pc' = [pc EXCEPT ![t] = "add"]
          /\ subs_arg' = [subs_arg EXCEPT ![t] = DefaultArg]
          /\ hist' = [hist EXCEPT ![t].absent = TRUE]
     ELSE /\ pc' = [pc EXCEPT ![t] = "lookup"]
          /\ UNCHANGED <<subs_arg, hist>>
  /\ UNCHANGED <<named_pub_sub, subscribers, process_strategies, config, first_publish,
                 queue_vars, op, pub_sub_name,
                 subscriber, args, pub_sub, it, intersection_strategies, idx, result,
                 unsubscribed>>

\* ----------------------------------------------------- add_named_pub_sub
\* an add_named_pub_sub without the membership test: it always stores
AddCheckAlways(t) ==
  /\ pc[t] = "add"
  /\ pc' = [pc EXCEPT ![t] = "assign"]
  /\ UNCHANGED <<named_pub_sub, subscribers, process_strategies, config, first_publish,
                 queue_vars, op,
                 pub_sub_name, subscriber, args, subs_arg, pub_sub, it,
                 intersection_strategies, idx, result, hist, unsubscribed>>

\* the membership test of line 26
AddCheck(t) ==
  /\ pc[t] = "add"
  /\ IF pub_sub_name[t] \notin Keys
     THEN /\ pc' = [pc EXCEPT ![t] = "assign"]
          /\ UNCHANGED <<result, pub_sub, subscribers, intersection_strategies, idx>>
     ELSE IF op[t] = "add_named_pub_sub"
          THEN Return(t, "ok", subscribers)
          ELSE /\ pc' = [pc EXCEPT ![t] = "lookup"]
               /\ UNCHANGED <<result, pub_sub, subscribers, intersection_strategies, idx>>
  /\ UNCHANGED <<named_pub_sub, process_strategies, config, first_publish,
                 queue_vars, op, pub_sub_name, subscriber, args,
                 subs_arg, it, hist, unsubscribed>>

\* the construction and dict store of line 27
AddAssign(t) ==
  /\ pc[t] = "assign"
  /\ LET o == PubSubInit(subs_arg[t], subscribers, named_pub_sub, pub_sub)
         nps == [named_pub_sub EXCEPT ![pub_sub_name[t]] = o]
     IN /\ named_pub_sub' = nps
        /\ IF op[t] = "add_named_pub_sub"
           THEN /\ pc' = [pc EXCEPT ![t] = "done"]
                /\ result' = [result EXCEPT ![t] = "ok"]
           ELSE /\ pc' = [pc EXCEPT ![t] = "lookup"]
                /\ UNCHANGED result
        /\ subscribers' = Collect(subscribers, nps, pub_sub)
        /\ unsubscribed' = unsubscribed \ {<<pub_sub_name[t], s>> : s \in subscribers[o]}
  /\ UNCHANGED <<process_strategies, config, first_publish,
                 queue_vars, op, pub_sub_name, subscriber, args, subs_arg,
                 pub_sub, it, intersection_strategies, idx, hist>>

\* ------------------------------------------- self.named_pub_sub[name]
\* a lookup that ignores the name and always takes the topic "default"
LookupDefault(t) ==
  /\ pc[t] = "lookup"
  /\ IF named_pub_sub[pub_sub_name[t]] = None
     THEN Return(t, "KeyError", subscribers)
     ELSE /\ pub_sub' = [pub_sub EXCEPT ![t] = named_pub_sub["default"]]
          /\ pc' = [pc EXCEPT ![t] = IF op[t] = "publish" THEN "iter" ELSE "mutate"]
          /\ UNCHANGED <<result, subscribers, intersection_strategies, idx>>
  /\ UNCHANGED <<named_pub_sub, process_strategies, config, first_publish,
                 queue_vars, op, pub_sub_name, subscriber, args,
                 subs_arg, it, hist, unsubscribed>>

Lookup(t) ==
  /\ pc[t] = "lookup"
  /\ IF named_pub_sub[pub_sub_name[t]] = None
     THEN Return(t, "KeyError", subscribers)
     ELSE /\ pub_sub' = [pub_sub EXCEPT ![t] = named_pub_sub[pub_sub_name[t]]]
          /\ pc' = [pc EXCEPT ![t] = IF op[t] = "publish" THEN "iter" ELSE "mutate"]
          /\ UNCHANGED <<result, subscribers, intersection_strategies, idx>>
  /\ UNCHANGED <<named_pub_sub, process_strategies, config, first_publish,
                 queue_vars, op, pub_sub_name, subscriber, args,
                 subs_arg, it, hist, unsubscribed>>

\* callers whose publish is iterating over set object o
Iterating(o) == {u \in Callers : pc[u] \in {"next", "strategy"} /\ pub_sub[u] = o}

\* ------------------------------------------------------ PubSub.subscribe
\* set.add.  The table slot of an element is fixed by its hash (its
\* address), so a running iterator that has already yielded the element has
\* passed its slot; otherwise the slot is one the iterator has still to
\* reach or, once the iterator has advanced, possibly one it has passed.
SeqRange(q) == {q[i] : i \in 1..Len(q)}

Subscribe(t) ==
  /\ pc[t] = "mutate" /\ op[t] = "subscribe"
  /\ LET o == pub_sub[t]
         s == subscriber[t]
         h == [subscribers EXCEPT ![o] = set_add(@, s)]
         reach == IF s \in subscribers[o] THEN {}
                  ELSE {u \in Iterating(o) : s \notin SeqRange(hist[u].dispatched)}
     IN /\ Return(t, "ok", h)
        /\ \E passed \in SUBSET {u \in reach : it[u].started} :
             it' = [u \in Callers |->
                      IF u \in reach \ passed
                      THEN [it[u] EXCEPT !.todo = @ \cup {s}]
                      ELSE it[u]]
        /\ unsubscribed' = unsubscribed \ {<<pub_sub_name[t], s>>}
        /\ hist' = [u \in Callers |->
                      IF u = t
                      THEN [hist[u] EXCEPT !.snapshot = subscribers[o]]
                      ELSE IF op[u] = "publish" /\ pub_sub_name[u] = pub_sub_name[t]
                      THEN [hist[u] EXCEPT !.banned = @ \ {s}]
                      ELSE hist[u]]
  /\ UNCHANGED <<named_pub_sub, process_strategies, config, first_publish,
                 queue_vars, op, pub_sub_name, subscriber, args,
                 subs_arg>>

\* ---------------------------------------------------- PubSub.unsubscribe
Unsubscribe(t) ==
  /\ pc[t] = "mutate" /\ op[t] = "unsubscribe"
  /\ LET o == pub_sub[t]
         s == subscriber[t]
         d == set_discard(subscribers[o], s)
         h == [subscribers EXCEPT ![o] = d.set]
     IN /\ Return(t, d.raised, h)
        /\ it' = [u \in Callers |->
                    IF u \in Iterating(o)
                    THEN [it[u] EXCEPT !.todo = @ \ {s}]
                    ELSE it[u]]
        /\ unsubscribed' = unsubscribed \cup ({<<pub_sub_name[t], s>>} \cap Watched)
        /\ hist' = [hist EXCEPT ![t].snapshot = subscribers[o]]
  /\ UNCHANGED <<named_pub_sub, process_strategies, config, first_publish,
                 queue_vars, op, pub_sub_name, subscriber, args,
                 subs_arg>>

\* ------------------------------------------------------ Subscriber.process
\* isinstance(process_strategy, strategy) for a strategy of class k
isinstance(k, c) == c = k \/ c = "ProcessStrategy"

\* lines 221-223: the inner loop over specific_process_strategies
RECURSIVE InnerLoop(_, _, _, _)
InnerLoop(bound, i, kinds, j) ==
  IF j > Len(kinds) THEN <<>>
  ELSE (IF isinstance(bound[i], kinds[j]) THEN <<i>> ELSE <<>>)
       \o InnerLoop(bound, i, kinds, j + 1)

\* lines 220-223: the outer loop over self.process_strategies
RECURSIVE OuterLoop(_, _, _)
OuterLoop(bound, kinds, i) ==
  IF i > Len(bound) THEN <<>>
  ELSE InnerLoop(bound, i, kinds, 1) \o OuterLoop(bound, kinds, i + 1)

\* lines 216-223: the strategies (positions in the bound list) to invoke
Intersection(bound, a) ==
  IF ~a.given
  THEN [i \in 1..Len(bound) |-> i]
  ELSE OuterLoop(bound, a.kinds, 1)

\* the positional arguments a caller of publish passed after the message
PositionalOf(a) == IF a.given THEN <<a.kinds>> ELSE <<>>

\* line 209 with 248 and 226: the first positional argument after the
\* message binds to specific_process_strategies, the rest is *args and is
\* what strategy.process receives
StrategyArgs(a) == IF PositionalOf(a) = <<>> THEN <<>> ELSE Tail(PositionalOf(a))

\* Subscriber.process called directly by a caller
CallProcess(t) ==
  /\ pc[t] = "idle"
  /\ \E s \in Subs, a \in ArgValues :
       /\ op' = [op EXCEPT ![t] = "process"]
       /\ subscriber' = [subscriber EXCEPT ![t] = s]
       /\ args' = [args EXCEPT ![t] = a]
       /\ intersection_strategies' =
            [intersection_strategies EXCEPT ![t] = Intersection(process_strategies[s], a)]
       /\ hist' = [hist EXCEPT ![t].dispatched = <<s>>]
  /\ idx' = [idx EXCEPT ![t] = 1]
  /\ pc' = [pc EXCEPT ![t] = "strategy"]
  /\ UNCHANGED <<named_pub_sub, subscribers, process_strategies, config, first_publish,
                 queue_vars, pub_sub_name, subs_arg,
                 pub_sub, it, result, unsubscribed>>

\* --------------------------------------------------------- PubSub.publish
\* `for subscriber in self.subscribers`: the iterator is created over the
\* live set and remembers its size
Iter(t) ==
  /\ pc[t] = "iter"
  /\ it' = [it EXCEPT ![t] = [used |-> Cardinality(subscribers[pub_sub[t]]),
                              todo |-> subscribers[pub_sub[t]],
                              started |-> FALSE]]
  /\ hist' = [hist EXCEPT ![t].snapshot = subscribers[pub_sub[t]]]
  /\ pc' = [pc EXCEPT ![t] = "next"]
  /\ UNCHANGED <<named_pub_sub, subscribers, process_strategies, config, first_publish,
                 queue_vars, op, pub_sub_name,
                 subscriber, args, subs_arg, pub_sub, intersection_strategies, idx,
                 result, unsubscribed>>

\* one step of the for loop: the set iterator raises RuntimeError when the
\* set's size differs from the remembered one, stops when no slot is left,
\* and otherwise yields the next subscriber, on which process is called
ForNext(t) ==
  /\ pc[t] = "next"
  /\ IF Cardinality(subscribers[pub_sub[t]]) # it[t].used
     THEN /\ Return(t, "RuntimeError", subscribers)
          /\ it' = [it EXCEPT ![t] = NoIter]
          /\ UNCHANGED <<subscriber, hist>>
     ELSE IF it[t].todo = {}
     THEN /\ Return(t, "ok", subscribers)
          /\ it' = [it EXCEPT ![t] = NoIter]
          /\ UNCHANGED <<subscriber, hist>>
     ELSE \E s \in it[t].todo :
          /\ subscriber' = [subscriber EXCEPT ![t] = s]
          /\ it' = [it EXCEPT ![t].todo = @ \ {s}, ![t].started = TRUE]
          /\ intersection_strategies' =
               [intersection_strategies EXCEPT ![t] = Intersection(process_strategies[s], args[t])]
          /\ idx' = [idx EXCEPT ![t] = 1]
          /\ hist' = [hist EXCEPT ![t].dispatched = Append(@, s)]
          /\ pc' = [pc EXCEPT ![t] = "strategy"]
          /\ UNCHANGED <<result, pub_sub, subscribers>>
  /\ UNCHANGED <<named_pub_sub, process_strategies, config, first_publish,
                 queue_vars, op, pub_sub_name, args, subs_arg,
                 unsubscribed>>

\* line 226: the ways strategy.process of the strategy at hand can end
Outcomes(t) ==
  LET s == subscriber[t]
      i == intersection_strategies[t][idx[t]]
  IN Process(process_strategies[s][i], config[s][i])

\* the strategy at hand has the configuration c from now on
Configure(t, c) ==
  [config EXCEPT ![subscriber[t]][intersection_strategies[t][idx[t]]] = c]

\* line 226: strategy.process returns
StrategyOk(t) ==
  /\ pc[t] = "strategy"
  /\ idx[t] <= Len(intersection_strategies[t])
  /\ \E o \in Outcomes(t) :
       /\ o.raised = "ok"
       /\ config' = Configure(t, o.config)
  /\ hist' = [hist EXCEPT ![t].invoked =
                Append(@, <<subscriber[t], intersection_strategies[t][idx[t]]>>)]
  /\ idx' = [idx EXCEPT ![t] = @ + 1]
  /\ UNCHANGED <<named_pub_sub, subscribers, process_strategies, first_publish,
                 queue_vars, pc, op, pub_sub_name,
                 subscriber, args, subs_arg, pub_sub, it, intersection_strategies, result,
                 unsubscribed>>

\* line 226: strategy.process raises; nothing catches the exception in
\* Subscriber.process, PubSub.publish or NamedPubSubManager.publish
StrategyRaise(t) ==
  /\ pc[t] = "strategy"
  /\ idx[t] <= Len(intersection_strategies[t])
  /\ hist' = [hist EXCEPT
                ![t].invoked = Append(@, <<subscriber[t], intersection_strategies[t][idx[t]]>>),
                ![t].failed = Append(@, <<subscriber[t], intersection_strategies[t][idx[t]]>>)]
  /\ \E o \in Outcomes(t) :
       /\ o.raised # "ok"
       /\ config' = Configure(t, o.config)
       /\ Return(t, o.raised, subscribers)
  /\ it' = [it EXCEPT ![t] = NoIter]
  /\ UNCHANGED <<named_pub_sub, process_strategies, first_publish,
                 queue_vars, op, pub_sub_name, subscriber, args,
                 subs_arg, unsubscribed>>

\* line 226: strategy.process does not return (a send that blocks, a script
\* that does not end); no call is made with a timeout and none runs on a
\* worker, so the caller stays inside the invocation, at one of the calls
\* to the outside that process makes
StrategyBlock(t) ==
  /\ pc[t] = "strategy"
  /\ idx[t] <= Len(intersection_strategies[t])
  /\ pc' = [pc EXCEPT ![t] = "blocked"]
  /\ \E o \in Outcomes(t) :
       /\ o.raised # "KeyError"
       /\ config' = Configure(t, o.config)
  /\ hist' = [hist EXCEPT ![t].invoked =
                Append(@, <<subscriber[t], intersection_strategies[t][idx[t]]>>)]
  /\ UNCHANGED <<named_pub_sub, subscribers, process_strategies, first_publish,
                 queue_vars, op,
                 pub_sub_name, subscriber, args, subs_arg, pub_sub, it,
                 intersection_strategies, idx, result, unsubscribed>>

\* the loop of line 225 is exhausted: Subscriber.process returns, to its
\* caller or to the for loop of publish
ProcessReturn(t) ==
  /\ pc[t] = "strategy"
  /\ idx[t] > Len(intersection_strategies[t])
  /\ IF op[t] = "process"
     THEN Return(t, "ok", subscribers)
     ELSE /\ pc' = [pc EXCEPT ![t] = "next"]
          /\ UNCHANGED <<subscribers, pub_sub, intersection_strategies, idx, result>>
  /\ UNCHANGED <<named_pub_sub, process_strategies, config, first_publish,
                 queue_vars, op, pub_sub_name, subscriber, args,
                 subs_arg, it, hist, unsubscribed>>

\* --------------------------------------------------- ordering containers
\* The classes Queue, Stack and PriorityQueue: a container is its class and
\* its items, oldest insertion first for Queue and Stack, next to dequeue
\* first for PriorityQueue.
Better(mf, p, q) == IF mf THEN p < q ELSE p > q

\* PriorityQueue keeps its items in priority order: a new item goes before
\* the first item of worse priority, so after every item of equal priority
RECURSIVE InsertByPriority(_, _, _)
InsertByPriority(items, e, mf) ==
  IF items = <<>> THEN <<e>>
  ELSE IF Better(mf, e.priority, Head(items).priority) THEN <<e>> \o items
  ELSE <<Head(items)>> \o InsertByPriority(Tail(items), e, mf)

\* the insert operation of a container, one event
Insert(c, e, mf) ==
  [c EXCEPT !.items = IF c.cls = "PriorityQueue"
                      THEN InsertByPriority(@, e, mf)
                      ELSE Append(@, e)]

\* container.enqueue(*elements): the events are inserted in call order
RECURSIVE ContainerEnqueue(_, _, _)
ContainerEnqueue(c, es, mf) ==
  IF es = <<>> THEN c
  ELSE ContainerEnqueue(Insert(c, Head(es), mf), Tail(es), mf)

\* container.dequeue(): Queue and PriorityQueue remove their first item,
\* Stack its last; an empty container raises and stays as it is
ContainerDequeue(c) ==
  IF c.items = <<>>
  THEN [raised |-> "QueueUnderflowError", container |-> c, event |-> NoEvent]
  ELSE IF c.cls = "Stack"
  THEN [raised |-> "ok",
        container |-> [c EXCEPT !.items = SubSeq(@, 1, Len(@) - 1)],
        event |-> c.items[Len(c.items)]]
  ELSE [raised |-> "ok",
        container |-> [c EXCEPT !.items = Tail(@)],
        event |-> Head(c.items)]

\* cls(*elements): a new container that has received the events
ContainerNew(cls, es, mf) == ContainerEnqueue([cls |-> cls, items |-> <<>>], es, mf)

\* ---------------------------------------------------------- QueueManager
\* a table that names the wrong class for every kind
queue_lookup_shifted ==
  [k \in QueueKinds |-> CASE k = "queue" -> "Stack"
                          [] k = "stack" -> "PriorityQueue"
                          [] k = "priority_queue" -> "Queue"]

\* lines 35-39
queue_lookup ==
  [k \in QueueKinds |-> CASE k = "queue" -> "Queue"
                          [] k = "stack" -> "Stack"
                          [] k = "priority_queue" -> "PriorityQueue"]

\* a store that replaces the kind's whole dict by one with the new entry
StoreReplacing(q, k, n, c) ==
  [q EXCEPT ![k] = [m \in QueueNames |-> IF m = n THEN c ELSE Absent]]

\* self.queues[queue_type][queue_name] = container
Store(q, k, n, c) == [q EXCEPT ![k][n] = c]

\* the container under a name after one of its methods has changed it in
\* place
Mutated(q, k, n, c) == [q EXCEPT ![k][n] = c]

\* the subscripts self.queues[queue_type][queue_name] find a container
HasKind(q, k) == k \in DOMAIN q
HasName(q, k, n) == HasKind(q, k) /\ q[k][n] # Absent

QueueEnter(t, o, k, n, es, start) ==
  /\ pc[t] = "idle"
  /\ pc' = [pc EXCEPT ![t] = start]
  /\ op' = [op EXCEPT ![t] = o]
  /\ result' = [result EXCEPT ![t] = None]
  /\ queue_type' = [queue_type EXCEPT ![t] = k]
  /\ queue_name' = [queue_name EXCEPT ![t] = n]
  /\ elements' = [elements EXCEPT ![t] = es]
  /\ dequeued' = [dequeued EXCEPT ![t] = NoEvent]
  /\ before' = [before EXCEPT ![t] = queues]
  /\ stamp' = stamp + Len(es)
  /\ UNCHANGED <<registry_vars, queues, min_first>>

\* the priorities of the events a caller passes for a kind: only
\* PriorityQueue reads the priority, the events for the other kinds all
\* have the same
PrioritiesFor(k, prios) ==
  IF k = "priority_queue" THEN prios ELSE {CHOOSE p \in prios : \A r \in prios : p <= r}

\* a caller creates len Event instances, at least one, and passes them to
\* enqueue
CallEnqueue(t, kinds, names, prios, maxlen) ==
  \E k \in kinds, n \in names, len \in 1..maxlen :
    /\ stamp + len <= MaxEvents
    /\ \E ps \in [1..len -> PrioritiesFor(k, prios)] :
         QueueEnter(t, "enqueue", k, n,
                    [i \in 1..len |-> [stamp |-> stamp + i, priority |-> ps[i]]],
                    "enqueue_test")

CallDequeue(t, kinds, names) ==
  \E k \in kinds, n \in names : QueueEnter(t, "dequeue", k, n, <<>>, "dequeue")

QueueReturn(t, res) ==
  /\ pc' = [pc EXCEPT ![t] = "done"]
  /\ result' = [result EXCEPT ![t] = res]

\* the caller has taken the outcome and is free to make its next call
QueueFinish(t) ==
  /\ pc[t] = "done" /\ op[t] \in {"enqueue", "dequeue"}
  /\ pc' = [pc EXCEPT ![t] = "idle"]
  /\ op' = [op EXCEPT ![t] = None]
  /\ result' = [result EXCEPT ![t] = None]
  /\ queue_type' = [queue_type EXCEPT ![t] = None]
  /\ queue_name' = [queue_name EXCEPT ![t] = None]
  /\ elements' = [elements EXCEPT ![t] = <<>>]
  /\ dequeued' = [dequeued EXCEPT ![t] = NoEvent]
  /\ before' = [before EXCEPT ![t] = NoQueues]
  /\ UNCHANGED <<registry_vars, queues, min_first, stamp>>

\* a test that first stores an empty dict under a kind that is no key, and
\* then fails on queue_lookup
EnqueueTestStoring(t) ==
  /\ pc[t] = "enqueue_test"
  /\ IF ~HasKind(queues, queue_type[t])
     THEN /\ queues' = [k \in DOMAIN queues \cup {queue_type[t]} |->
                          IF k \in DOMAIN queues THEN queues[k]
                          ELSE [n \in QueueNames |-> Absent]]
          /\ QueueReturn(t, "KeyError")
     ELSE /\ pc' = [pc EXCEPT ![t] = IF HasName(queues, queue_type[t], queue_name[t])
                                     THEN "enqueue_delegate" ELSE "enqueue_create"]
          /\ UNCHANGED <<result, queues>>
  /\ UNCHANGED <<registry_vars, min_first, op, queue_type, queue_name, elements,
                 dequeued, before, stamp>>

\* line 41: `queue_name in self.queues[queue_type]`
EnqueueTest(t) ==
  /\ pc[t] = "enqueue_test"
  /\ IF ~HasKind(queues, queue_type[t])
     THEN QueueReturn(t, "KeyError")
     ELSE /\ pc' = [pc EXCEPT ![t] = IF HasName(queues, queue_type[t], queue_name[t])
                                     THEN "enqueue_delegate" ELSE "enqueue_create"]
          /\ UNCHANGED result
  /\ UNCHANGED <<registry_vars, queues, min_first, op, queue_type, queue_name, elements,
                 dequeued, before, stamp>>

\* a delegation that passes the events last first
EnqueueDelegateReversed(t) ==
  /\ pc[t] = "enqueue_delegate"
  /\ queues' = Mutated(queues, queue_type[t], queue_name[t],
                     ContainerEnqueue(queues[queue_type[t]][queue_name[t]],
                                      [i \in 1..Len(elements[t]) |->
                                         elements[t][Len(elements[t]) + 1 - i]],
                                      min_first))
  /\ QueueReturn(t, "ok")
  /\ UNCHANGED <<registry_vars, min_first, op, queue_type, queue_name, elements, dequeued,
                 before, stamp>>

\* line 42: the container found under the name receives the events
EnqueueDelegate(t) ==
  /\ pc[t] = "enqueue_delegate"
  /\ queues' = Mutated(queues, queue_type[t], queue_name[t],
                     ContainerEnqueue(queues[queue_type[t]][queue_name[t]],
                                      elements[t], min_first))
  /\ QueueReturn(t, "ok")
  /\ UNCHANGED <<registry_vars, min_first, op, queue_type, queue_name, elements, dequeued,
                 before, stamp>>

\* a creation that constructs the container without the events
EnqueueCreateEmpty(t) ==
  /\ pc[t] = "enqueue_create"
  /\ queues' = Store(queues, queue_type[t], queue_name[t],
                     ContainerNew(queue_lookup[queue_type[t]], <<>>, min_first))
  /\ QueueReturn(t, "ok")
  /\ UNCHANGED <<registry_vars, min_first, op, queue_type, queue_name, elements, dequeued,
                 before, stamp>>

\* line 44: a container of the class queue_lookup names is constructed with
\* the events and stored under the name, whatever is stored there by now
EnqueueCreate(t) ==
  /\ pc[t] = "enqueue_create"
  /\ queues' = Store(queues, queue_type[t], queue_name[t],
                     ContainerNew(queue_lookup[queue_type[t]], elements[t], min_first))
  /\ QueueReturn(t, "ok")
  /\ UNCHANGED <<registry_vars, min_first, op, queue_type, queue_name, elements, dequeued,
                 before, stamp>>

\* a dequeue that takes from the default container of the kind
DequeueDefault(t) ==
  /\ pc[t] = "dequeue"
  /\ IF ~HasName(queues, queue_type[t], "default")
     THEN /\ QueueReturn(t, "KeyError")
          /\ UNCHANGED <<queues, dequeued>>
     ELSE LET r == ContainerDequeue(queues[queue_type[t]]["default"])
          IN /\ queues' = Mutated(queues, queue_type[t], "default", r.container)
             /\ dequeued' = [dequeued EXCEPT ![t] = r.event]
             /\ QueueReturn(t, r.raised)
  /\ UNCHANGED <<registry_vars, min_first, op, queue_type, queue_name, elements, before,
                 stamp>>

\* a dequeue that creates the container it does not find
DequeueCreating(t) ==
  /\ pc[t] = "dequeue"
  /\ IF ~HasKind(queues, queue_type[t])
     THEN /\ QueueReturn(t, "KeyError")
          /\ UNCHANGED <<queues, dequeued>>
     ELSE LET c == IF HasName(queues, queue_type[t], queue_name[t])
                   THEN queues[queue_type[t]][queue_name[t]]
                   ELSE ContainerNew(queue_lookup[queue_type[t]], <<>>, min_first)
              r == ContainerDequeue(c)
          IN /\ queues' = Mutated(queues, queue_type[t], queue_name[t], r.container)
             /\ dequeued' = [dequeued EXCEPT ![t] = r.event]
             /\ QueueReturn(t, r.raised)
  /\ UNCHANGED <<registry_vars, min_first, op, queue_type, queue_name, elements, before,
                 stamp>>

\* a dequeue that drops the entry of a container it finds empty
DequeueDropping(t) ==
  /\ pc[t] = "dequeue"
  /\ IF ~HasName(queues, queue_type[t], queue_name[t])
     THEN /\ QueueReturn(t, "KeyError")
          /\ UNCHANGED <<queues, dequeued>>
     ELSE LET r == ContainerDequeue(queues[queue_type[t]][queue_name[t]])
          IN /\ queues' = Mutated(queues, queue_type[t], queue_name[t],
                                IF r.raised = "ok" THEN r.container ELSE Absent)
             /\ dequeued' = [dequeued EXCEPT ![t] = r.event]
             /\ QueueReturn(t, r.raised)
  /\ UNCHANGED <<registry_vars, min_first, op, queue_type, queue_name, elements, before,
                 stamp>>

\* line 51: a subscript that finds no key raises KeyError, otherwise the
\* container's dequeue returns an event or raises
Dequeue(t) ==
  /\ pc[t] = "dequeue"
  /\ IF ~HasName(queues, queue_type[t], queue_name[t])
     THEN /\ QueueReturn(t, "KeyError")
          /\ UNCHANGED <<queues, dequeued>>
     ELSE LET r == ContainerDequeue(queues[queue_type[t]][queue_name[t]])
          IN /\ queues' = Mutated(queues, queue_type[t], queue_name[t], r.container)
             /\ dequeued' = [dequeued EXCEPT ![t] = r.event]
             /\ QueueReturn(t, r.raised)
  /\ UNCHANGED <<registry_vars, min_first, op, queue_type, queue_name, elements, before,
                 stamp>>

\* ------------------------------------------------------- specifications
Registry(t, names, argvals, setargs) ==
  \/ CallSubscribe(t, names)
  \/ CallUnsubscribe(t, names)
  \/ CallPublish(t, names, argvals)
  \/ CallAddNamedPubSub(t, names, setargs)
  \/ CreateIfNotExists(t)
  \/ AddCheck(t)
  \/ AddAssign(t)
  \/ Lookup(t)
  \/ Subscribe(t)
  \/ Unsubscribe(t)
  \/ Iter(t)
  \/ ForNext(t)
  \/ StrategyOk(t)
  \/ StrategyRaise(t)
  \/ ProcessReturn(t)
  \/ Finish(t)

\* one caller, one call at a time
SeqInit ==
  \E ext \in SUBSET Subs : InitWith([s \in Subs |-> RegistryStrategies], ext)
SeqNext == Registry("c1", Names, PublishArgs, {DefaultArg, CallerSet})
SeqSpec == SeqInit /\ [][SeqNext]_vars

\* one caller subscribing to and publishing on the topic "default", the
\* strategies configured as a caller constructs them
RepeatInit ==
  \E lists \in [Subs -> SeqsUpTo(StrategyKinds, MaxStrategies)] :
    /\ NamedPubSubManagerWith(lists, {}, ConfigOf(lists, TRUE))
    /\ QueueManagerInit(TRUE)
RepeatNext ==
  \/ CallSubscribe("c1", {"default"})
  \/ CallPublish("c1", {"default"}, {NoArgs})
  \/ CreateIfNotExists("c1")
  \/ Lookup("c1")
  \/ Subscribe("c1")
  \/ Iter("c1")
  \/ ForNext("c1")
  \/ StrategyOk("c1")
  \/ StrategyRaise("c1")
  \/ ProcessReturn("c1")
  \/ RepeatFinish("c1")
RepeatSpec == RepeatInit /\ [][RepeatNext]_vars

\* callers running concurrently on one topic name, interleaved at every
\* access to the shared dict and sets
Init == InitWith([s \in Subs |-> <<"HTTP">>], {})
Next == \E t \in Callers : Registry(t, ConcurrentNames, {NoArgs}, {DefaultArg})
Spec == Init /\ [][Next]_vars

\* Subscriber.process on its own, over every bound list and selection
DispatchInit ==
  \E lists \in [Subs -> SeqsUpTo(StrategyKinds, MaxStrategies)] : InitWith(lists, {})
DispatchNext ==
  \/ CallProcess("c1")
  \/ StrategyOk("c1")
  \/ StrategyRaise("c1")
  \/ ProcessReturn("c1")
  \/ Finish("c1")
DispatchSpec == DispatchInit /\ [][DispatchNext]_vars

\* the calls of one caller to the Queue Manager
QueueCalls(t, kinds, names, prios, maxlen) ==
  \/ CallEnqueue(t, kinds, names, prios, maxlen)
  \/ CallDequeue(t, kinds, names)
  \/ EnqueueTest(t)
  \/ EnqueueDelegate(t)
  \/ EnqueueCreate(t)
  \/ Dequeue(t)
  \/ QueueFinish(t)

\* one caller of the Queue Manager, one call at a time, either order of
\* PriorityQueue
QueueInit ==
  \E order \in BOOLEAN :
    /\ NamedPubSubManagerInit([s \in Subs |-> <<>>], {})
    /\ QueueManagerInit(order)
QueueNext ==
  QueueCalls("c1", QueueKinds \cup {UnknownKind}, QueueNames, Priorities, MaxEvents)
QueueSpec == QueueInit /\ [][QueueNext]_vars

\* callers running concurrently on the entries of one kind, interleaved at
\* every access to the shared dict
RaceKinds == {"queue"}
RacePriorities == {1}
QueueRaceInit ==
  /\ NamedPubSubManagerInit([s \in Subs |-> <<>>], {})
  /\ QueueManagerInit(TRUE)
QueueRaceNext ==
  \E t \in Callers : QueueCalls(t, RaceKinds, QueueNames, RacePriorities, 1)
QueueRaceSpec == QueueRaceInit /\ [][QueueRaceNext]_vars

\* one caller whose started call keeps running as long as it can take a
\* step, with strategies that may raise or never return
BlockingInit == InitWith([s \in Subs |-> RegistryStrategies], {})
BlockingCall ==
  \/ CallSubscribe("c1", ConcurrentNames)
  \/ CallUnsubscribe("c1", ConcurrentNames)
  \/ CallPublish("c1", ConcurrentNames, {NoArgs})
BlockingStep ==
  \/ CreateIfNotExists("c1")
  \/ AddCheck("c1")
  \/ AddAssign("c1")
  \/ Lookup("c1")
  \/ Subscribe("c1")
  \/ Unsubscribe("c1")
  \/ Iter("c1")
  \/ ForNext("c1")
  \/ StrategyOk("c1")
  \/ StrategyRaise("c1")
  \/ StrategyBlock("c1")
  \/ ProcessReturn("c1")
  \/ Finish("c1")
BlockingNext == BlockingCall \/ BlockingStep
BlockingSpec == BlockingInit /\ [][BlockingNext]_vars /\ WF_vars(BlockingStep)

\* ------------------------------------------------------------ properties
TopicSet(n) == subscribers[named_pub_sub[n]]
Returned(t, o) == pc[t] = "done" /\ op[t] = o
InvokedSubs(t) == {hist[t].invoked[i][1] : i \in 1..Len(hist[t].invoked)}
InvokedOf(t) == {hist[t].invoked[i][2] : i \in 1..Len(hist[t].invoked)}

\* the strategies of a bound list a dispatch with argument a has to invoke
KindSelected(k, kinds) == \E j \in 1..Len(kinds) : kinds[j] \in {k, "ProcessStrategy"}
SelectedSet(bound, a) ==
  IF a.given THEN {i \in 1..Len(bound) : KindSelected(bound[i], a.kinds)}
  ELSE 1..Len(bound)

\* C1: the name passed to a subscribe, unsubscribe or publish call is a key
\* of named_pub_sub once the call has returned or raised, and no step ever
\* removes a key.
C1_NamesStayKeys ==
  /\ [](\A t \in Callers :
          (pc[t] = "done" /\ op[t] \in {"subscribe", "unsubscribe", "publish"})
            => pub_sub_name[t] \in Keys)
  /\ [][\A n \in Names : named_pub_sub[n] # None => named_pub_sub'[n] # None]_vars

C1_Witness ==
  \E t \in Callers :
    /\ Returned(t, "unsubscribe") /\ hist[t].absent
    /\ pub_sub_name[t] \in Keys

\* C2: a publish that ended in a strategy failure has nevertheless
\* dispatched every subscriber that was in the topic.
C2_AggregateFanOut ==
  \A t \in Callers :
    (Returned(t, "publish") /\ result[t] = "DeliveryError")
      => hist[t].snapshot \subseteq SeqRange(hist[t].dispatched)

\* C3: a Subscriber.process call in which a strategy raised has nevertheless
\* invoked every selected strategy of the subscriber, and reports exactly
\* the failures that occurred.
C3_SiblingStrategiesRun ==
  \A t \in Callers :
    (Returned(t, "process") /\ result[t] = "DeliveryError")
      => /\ SelectedSet(process_strategies[subscriber[t]], args[t]) \subseteq InvokedOf(t)
         /\ Len(hist[t].failed) = 1

\* C4: a Subscriber.process call invokes exactly the bound strategies whose
\* class is named in the selection (all of them when the selection is
\* omitted, none when it is empty), in binding order.
C4_SelectedStrategiesInvoked ==
  \A t \in Callers :
    Returned(t, "process")
      => /\ InvokedOf(t) = SelectedSet(process_strategies[subscriber[t]], args[t])
         /\ \A i, j \in 1..Len(hist[t].invoked) :
              i < j => hist[t].invoked[i][2] <= hist[t].invoked[j][2]

\* C5: a publish in which no strategy raised completes without an
\* iteration error and has dispatched exactly the subscribers that were in
\* the set when its fan-out began, each once, whatever other callers did
\* to the set meanwhile.
C5_SnapshotFanOut ==
  \A t \in Callers :
    (Returned(t, "publish") /\ result[t] # "DeliveryError")
      => /\ result[t] = "ok"
         /\ SeqRange(hist[t].dispatched) = hist[t].snapshot
         /\ Len(hist[t].dispatched) = Cardinality(hist[t].snapshot)

\* C6: when two callers have both returned from subscribing different
\* subscribers to a name each of them found absent, both subscribers are
\* members of the topic under that name.
C6_AtomicCreate ==
  \A t, u \in Callers :
    (/\ t # u
     /\ Returned(t, "subscribe") /\ Returned(u, "subscribe")
     /\ pub_sub_name[t] = pub_sub_name[u]
     /\ hist[t].absent /\ hist[u].absent
     /\ subscriber[t] # subscriber[u])
      => {subscriber[t], subscriber[u]} \subseteq TopicSet(pub_sub_name[t])

\* C7: after subscribe(name, s) the subscriber is a member of the topic, and
\* when it was a member already the topic's set (and so its cardinality)
\* is the one it was before the call.
C7_SubscribeIdempotent ==
  \A t \in Callers :
    Returned(t, "subscribe")
      => /\ result[t] = "ok"
         /\ subscriber[t] \in TopicSet(pub_sub_name[t])
         /\ subscriber[t] \in hist[t].snapshot
              => /\ TopicSet(pub_sub_name[t]) = hist[t].snapshot
                 /\ Cardinality(TopicSet(pub_sub_name[t])) = Cardinality(hist[t].snapshot)

C7_Witness ==
  \E t \in Callers :
    /\ Returned(t, "subscribe")
    /\ subscriber[t] \in hist[t].snapshot
    /\ Cardinality(hist[t].snapshot) = 2

\* C8: unsubscribe(name, s) never raises, and when s was not a member of
\* the topic (a topic the call itself created included) the topic's set is
\* the one it was before the call.
C8_UnsubscribeAbsentNoOp ==
  \A t \in Callers :
    Returned(t, "unsubscribe")
      => /\ result[t] = "ok"
         /\ subscriber[t] \notin hist[t].snapshot
              => TopicSet(pub_sub_name[t]) = hist[t].snapshot

C8_Witness ==
  \E t \in Callers :
    /\ Returned(t, "unsubscribe")
    /\ subscriber[t] \notin hist[t].snapshot
    /\ hist[t].snapshot # {}

\* C9: a publish that found its name absent creates an empty topic under
\* that name before the fan-out, dispatches no subscriber, invokes no
\* strategy and returns without error.
C9_PublishUnseenName ==
  \A t \in Callers :
    (op[t] = "publish" /\ hist[t].absent)
      => /\ hist[t].dispatched = <<>> /\ hist[t].invoked = <<>>
         /\ pc[t] \in {"lookup", "iter", "next", "done"}
              => pub_sub_name[t] \in Keys /\ TopicSet(pub_sub_name[t]) = {}
         /\ pc[t] = "done" => result[t] = "ok"

C9_Witness ==
  \E t \in Callers :
    /\ Returned(t, "publish") /\ hist[t].absent
    /\ \E n \in Keys : TopicSet(n) # {}

\* C10: a publish that began after unsubscribe(name, s) returned invokes no
\* strategy of s unless s has been subscribed to name again.
C10_NoDeliveryAfterUnsubscribe ==
  \A t \in Callers :
    op[t] = "publish"
      => \A i \in 1..Len(hist[t].invoked) : hist[t].invoked[i][1] \notin hist[t].banned

\* C11: when a strategy invoked by a publish never returns, the publish
\* nevertheless returns eventually, reports the blocked strategy as a
\* TimeoutError, and has by then offered the message to every subscriber
\* that was in the topic.
C11_BlockedStrategyTimesOut ==
  \A t \in Callers :
    (op[t] = "publish" /\ pc[t] = "blocked")
      ~> (/\ Returned(t, "publish")
          /\ result[t] = "TimeoutError"
          /\ hist[t].snapshot \subseteq SeqRange(hist[t].dispatched))

\* C12: create_pub_sub_name_if_not_exists and add_named_pub_sub, whatever
\* set they are given, leave the dict and the topic's subscribers as they
\* are when the name is a key already; they never raise; when the name is
\* absent create_pub_sub_name_if_not_exists stores a topic with no
\* subscribers and changes no other topic; afterwards the name is a key, so
\* that a second call changes nothing.
C12_EnsureIdempotent ==
  [][\A t \in Callers :
       LET n == pub_sub_name[t]
       IN /\ (pc[t] \in {"create", "add", "assign"} /\ pc'[t] # pc[t] /\ n \in Keys)
               => /\ named_pub_sub' = named_pub_sub
                  /\ subscribers'[named_pub_sub'[n]] = subscribers[named_pub_sub[n]]
          /\ (pc[t] \in {"create", "add", "assign"} /\ pc'[t] # pc[t])
               => /\ pc'[t] \in {"add", "assign", "lookup", "done"}
                  /\ pc'[t] = "done" => result'[t] = "ok"
                  /\ pc'[t] \in {"lookup", "done"} => named_pub_sub'[n] # None
          /\ (pc[t] = "assign" /\ pc'[t] # pc[t] /\ hist[t].absent)
               => /\ subscribers'[named_pub_sub'[n]] = {}
                  /\ \A m \in Names \ {n} :
                       /\ named_pub_sub'[m] = named_pub_sub[m]
                       /\ m \in Keys => subscribers'[named_pub_sub'[m]] = subscribers[named_pub_sub[m]]
    ]_vars

C12_Witness ==
  \E t \in Callers :
    /\ Returned(t, "add_named_pub_sub")
    /\ subs_arg[t] = CallerSet /\ subscribers[CallerSet] # {}
    /\ named_pub_sub[pub_sub_name[t]] # CallerSet
    /\ TopicSet(pub_sub_name[t]) # {}
    /\ TopicSet(pub_sub_name[t]) # subscribers[CallerSet]

\* --------------------------------------------- Queue Manager properties
StampsOf(items) == {items[i].stamp : i \in 1..Len(items)}
ItemsOf(items) == {items[i] : i \in 1..Len(items)}
\* the container a call was aimed at, as it was when the call began
Source(t) == before[t][queue_type[t]][queue_name[t]]
Target(t) == queues[queue_type[t]][queue_name[t]]
Existed(t) == HasName(before[t], queue_type[t], queue_name[t])
\* a dequeue has returned from a container of kind k that held events
Took(t, k) ==
  /\ Returned(t, "dequeue") /\ queue_type[t] = k
  /\ Existed(t) /\ Source(t).items # <<>>
\* the class a kind stands for
ClassOf(k) ==
  CASE k = "queue" -> "Queue" [] k = "stack" -> "Stack" [] k = "priority_queue" -> "PriorityQueue"

\* C13: a dequeue from a container of kind queue that holds events returns
\* the event enqueued earliest among them and removes just that event,
\* whether the events came in one enqueue call or several and whether or
\* not the first call created the container.
C13_QueueFifo ==
  \A t \in Callers :
    Took(t, "queue")
      => /\ result[t] = "ok"
         /\ dequeued[t] \in ItemsOf(Source(t).items)
         /\ \A e \in ItemsOf(Source(t).items) : dequeued[t].stamp <= e.stamp
         /\ StampsOf(Target(t).items) = StampsOf(Source(t).items) \ {dequeued[t].stamp}

C13_Witness ==
  \E t \in Callers :
    /\ Took(t, "queue") /\ queue_name[t] = "jobs"
    /\ Len(Source(t).items) >= 3
    /\ dequeued[t].stamp = 1

\* C14: a dequeue from a container of kind stack that holds events returns
\* the event enqueued latest among them and removes just that event.
C14_StackLifo ==
  \A t \in Callers :
    Took(t, "stack")
      => /\ result[t] = "ok"
         /\ dequeued[t] \in ItemsOf(Source(t).items)
         /\ \A e \in ItemsOf(Source(t).items) : dequeued[t].stamp >= e.stamp
         /\ StampsOf(Target(t).items) = StampsOf(Source(t).items) \ {dequeued[t].stamp}

C14_Witness ==
  \E t \in Callers :
    /\ Took(t, "stack") /\ queue_name[t] = "jobs"
    /\ Len(Source(t).items) >= 3
    /\ dequeued[t].stamp = 3

\* C15: a dequeue from a container of kind priority_queue that holds events
\* returns an event no other of them beats in priority, in the configured
\* order, and among those of its priority the one enqueued earliest.
C15_PriorityOrder ==
  \A t \in Callers :
    Took(t, "priority_queue")
      => /\ result[t] = "ok"
         /\ dequeued[t] \in ItemsOf(Source(t).items)
         /\ \A e \in ItemsOf(Source(t).items) :
              /\ ~Better(min_first, e.priority, dequeued[t].priority)
              /\ e.priority = dequeued[t].priority => dequeued[t].stamp <= e.stamp
         /\ StampsOf(Target(t).items) = StampsOf(Source(t).items) \ {dequeued[t].stamp}

C15_Witness ==
  \E t \in Callers :
    /\ Took(t, "priority_queue")
    /\ \E e, f \in ItemsOf(Source(t).items) :
         /\ e.priority = dequeued[t].priority /\ e.stamp > dequeued[t].stamp
         /\ f.priority # dequeued[t].priority /\ f.stamp < dequeued[t].stamp

C18_DequeueEmpty ==
  \A t \in Callers :
    /\ (Returned(t, "dequeue") /\ Existed(t) /\ Source(t).items = <<>>)
         => /\ result[t] = "QueueUnderflowError"
            /\ queues = before[t]
            /\ HasName(queues, queue_type[t], queue_name[t])
            /\ Target(t).items = <<>>
    /\ (Returned(t, "enqueue") /\ Existed(t))
         => /\ result[t] = "ok"
            /\ StampsOf(Target(t).items) = StampsOf(Source(t).items) \cup StampsOf(elements[t])
    /\ (Returned(t, "dequeue") /\ Existed(t) /\ Source(t).items # <<>>)
         => result[t] = "ok"

C18_Witness ==
  \E t \in Callers :
    /\ Returned(t, "dequeue") /\ queue_name[t] = "jobs"
    /\ Existed(t) /\ Source(t).items = <<>>
    /\ result[t] = "QueueUnderflowError"

C20_NoLostEnqueue ==
  \A t, u \in Callers :
    (/\ t # u
     /\ Returned(t, "enqueue") /\ Returned(u, "enqueue")
     /\ result[t] = "ok" /\ result[u] = "ok"
     /\ queue_type[t] = queue_type[u] /\ queue_name[t] = queue_name[u]
     /\ ~Existed(t) /\ ~Existed(u))
      => StampsOf(elements[t]) \cup StampsOf(elements[u]) \subseteq StampsOf(Target(t).items)

\* C21: an enqueue or dequeue call that raised (a queue_type that is no key,
\* a name that is no key of its kind, a container without events) has left
\* the queues mapping, its kinds, its names and every container, as it was
\* when the call began.
C21_FailureLeavesQueues ==
  \A t \in Callers :
    (pc[t] = "done" /\ op[t] \in {"enqueue", "dequeue"} /\ result[t] # "ok")
      => /\ queues = before[t]
         /\ dequeued[t] = NoEvent

C21_Witness ==
  \E t \in Callers :
    /\ Returned(t, "enqueue") /\ queue_type[t] = UnknownKind
    /\ result[t] = "KeyError"
    /\ \E k \in QueueKinds : HasName(queues, k, "jobs") /\ queues[k]["jobs"].items # <<>>

\* C22: with one caller (no membership change during the call), a publish
\* that returned without a failing strategy has called process exactly once
\* on each member of the topic of that name and on no one else: a subscriber
\* that is only in the sets of other topics was not dispatched.
C22_ExactlyTopicMembers ==
  \A t \in Callers :
    (Returned(t, "publish") /\ result[t] = "ok")
      => /\ SeqRange(hist[t].dispatched) = TopicSet(pub_sub_name[t])
         /\ Len(hist[t].dispatched) = Cardinality(TopicSet(pub_sub_name[t]))
         /\ \A s \in Subs \ TopicSet(pub_sub_name[t]) : s \notin InvokedSubs(t)

C22_Witness ==
  \E t \in Callers, m \in Keys :
    /\ Returned(t, "publish") /\ result[t] = "ok"
    /\ TopicSet(pub_sub_name[t]) # {}
    /\ m # pub_sub_name[t]
    /\ TopicSet(m) \ TopicSet(pub_sub_name[t]) # {}
    /\ SeqRange(hist[t].dispatched) = TopicSet(pub_sub_name[t])

\* C23: publish forwards the positional context it was given, unchanged, to
\* each strategy it invokes, and the first positional context argument does
\* not alter the selection: a publish that returned without a failure has
\* invoked every bound strategy of every subscriber it dispatched.
C23_ContextForwarded ==
  \A t \in Callers :
    (Returned(t, "publish") /\ result[t] = "ok")
      => /\ hist[t].invoked # <<>> => StrategyArgs(args[t]) = PositionalOf(args[t])
         /\ \A s \in SeqRange(hist[t].dispatched) :
              \A i \in 1..Len(process_strategies[s]) :
                <<s, i>> \in SeqRange(hist[t].invoked)

\* C24: topics under distinct names never share a subscriber set, so a
\* subscribe or unsubscribe on one name leaves the subscriber set of every
\* other name as it was.
C24_TopicsOwnTheirSets ==
  /\ \A n, m \in Keys : n # m => named_pub_sub[n] # named_pub_sub[m]
  /\ \A t \in Callers :
       (pc[t] = "done" /\ op[t] \in {"subscribe", "unsubscribe"} /\ result[t] = "ok"
          /\ TopicSet(pub_sub_name[t]) # hist[t].snapshot)
         => \A m \in Keys \ {pub_sub_name[t]} : subscriber[t] \in TopicSet(m)
                                                  <=> subscriber[t] \in hist[t].snapshot

\* C25: membership is by instance.  Subscribing an instance adds it to the
\* topic even when an instance with equal fields is a member already,
\* unsubscribing an instance removes that instance alone, and a publish
\* dispatches every member instance once.
C25_IdentityMembership ==
  \A t \in Callers :
    /\ (Returned(t, "subscribe") /\ result[t] = "ok")
         => TopicSet(pub_sub_name[t]) = hist[t].snapshot \cup {subscriber[t]}
    /\ (Returned(t, "unsubscribe") /\ result[t] = "ok")
         => TopicSet(pub_sub_name[t]) = hist[t].snapshot \ {subscriber[t]}
    /\ (Returned(t, "publish") /\ result[t] = "ok")
         => Len(hist[t].dispatched) = Cardinality(hist[t].snapshot)

C25_Witness ==
  \E t \in Callers, x \in Subs :
    /\ Returned(t, "unsubscribe") /\ result[t] = "ok"
    /\ x # subscriber[t]
    /\ process_strategies[x] = process_strategies[subscriber[t]]
    /\ hist[t].snapshot = {x, subscriber[t]}
    /\ TopicSet(pub_sub_name[t]) = {x}

\* C26: in one call of Subscriber.process every bound strategy is invoked
\* at most once, whatever the selection names (a kind named twice, two
\* kinds that both match one strategy).
C26_InvokedAtMostOnce ==
  \A t \in Callers :
    Returned(t, "process")
      => \A i, j \in 1..Len(hist[t].invoked) :
           hist[t].invoked[i] = hist[t].invoked[j] => i = j

\* C27: processing leaves a strategy's settings as they were, so a publish
\* is repeatable: when the first publish on a topic succeeded, a later
\* publish to the same subscriber set that met no failure of the outside
\* succeeds too and has invoked the same strategies, and the first publish
\* left every strategy configured as it was constructed.
C27_PublishRepeatable ==
  \A t \in Callers :
    (/\ Returned(t, "publish")
     /\ first_publish.made /\ first_publish.result = "ok"
     /\ hist[t].snapshot = first_publish.snapshot
     /\ result[t] # "DeliveryError")
      => /\ result[t] = "ok"
         /\ SeqRange(hist[t].invoked) = SeqRange(first_publish.invoked)
         /\ first_publish.config = ConfigOf(process_strategies, TRUE)

====
